---- MODULE Spec2Model ----
(***************************************************************************)
(* Model of rust/src/cxxqt_object.rs: the Qt-exposed object MyObject       *)
(* (number, string, increment_number, say_hi) and the Bevy scene that      *)
(* say_hi runs (setup at Startup, animate_cube at every Update).           *)
(*                                                                         *)
(* Arithmetic conventions                                                  *)
(*  - i32 values are Integers kept inside I32Min..I32Max by AddI32.        *)
(*  - a curve parameter t is the numerator of t over TDen.                 *)
(*  - a Vec3 held by a Transform or produced by the curve is a triple of   *)
(*    numerators over FixDen = TDen^3, so a cubic in t/TDen is exact.      *)
(*  - elapsed time counts units of pi/6 seconds and only takes the values  *)
(*    whose sine is rational, so (sin+1)/2 is exact.                       *)
(***************************************************************************)
EXTENDS Integers, Sequences, FiniteSets, TLC

VARIABLES
    number,          \* MyObjectRust.number
    string,          \* MyObjectRust.string
    overflow_checks, \* build profile: does `previous + 1` panic on overflow
    crashed,         \* the process aborted on a panic inside an invokable
    pc,              \* where the pending say_hi call is: idle, startup, update
    sayArgs,         \* the arguments of the pending say_hi call
    world,           \* the entities of the running App's World
    elapsed,         \* Time::elapsed_seconds of the running App, in pi/6
    frames,          \* Update ticks of the running App
    gizmos,          \* the linestrips drawn in the last Update tick
    stdout,          \* the lines println! has written
    incCalls,        \* calls of increment_number so far
    sayHiCalls,      \* calls of say_hi so far
    setupRuns,       \* runs of setup so far, over the whole program
    animateRuns,     \* runs of animate_cube so far, over the whole program
    probe            \* a curve built from arbitrary points and one evaluation

vars == <<number, string, overflow_checks, crashed, pc, sayArgs, world, elapsed,
          frames, gizmos, stdout, incCalls, sayHiCalls, setupRuns, animateRuns,
          probe>>

objectVars == <<number, string>>
appVars == <<pc, sayArgs, world, elapsed, frames, gizmos, stdout>>

----------------------------------------------------------------------------
(* Bounds of the model *)

MaxInc == 3
MaxSayHi == 2
MaxFrames == 2
MaxElapsed == 9
CoordMax == 1

----------------------------------------------------------------------------
(* i32 *)

I32Max == 2147483647
I32Min == -I32Max - 1

\* does a + b leave i32 (for b >= 0)
OverflowsI32(a, b) == a > I32Max - b

\* a + b in i32 where it does not panic: two's complement wrap-around (b >= 0)
\* variant: the sum saturates at I32Max
AddI32_Saturating(a, b) == IF OverflowsI32(a, b) THEN I32Max ELSE a + b
AddI32(a, b) ==
    IF OverflowsI32(a, b) THEN I32Min + ((b - 1) - (I32Max - a)) ELSE a + b

----------------------------------------------------------------------------
(* Vec3 and the cubic curve *)

Subdivisions == 50
TDen == 2 * Subdivisions
FixDen == TDen * TDen * TDen

vec3(x, y, z) == <<x, y, z>>
VAdd(u, v) == <<u[1] + v[1], u[2] + v[2], u[3] + v[3]>>
VScale(k, v) == <<k * v[1], k * v[2], k * v[3]>>
ToFix(v) == VScale(FixDen, v)

\* CubicBezier char matrix applied to one group of four control points
\* variant: the last row takes p[3] where it should take p[4]
BezierCoeffs_BadRow(p) ==
    << p[1],
       VAdd(VScale(-3, p[1]), VScale(3, p[2])),
       VAdd(VScale(3, p[1]), VAdd(VScale(-6, p[2]), VScale(3, p[3]))),
       VAdd(VScale(-1, p[1]), VAdd(VScale(3, p[2]), VAdd(VScale(-3, p[3]), p[3]))) >>
BezierCoeffs(p) ==
    << p[1],
       VAdd(VScale(-3, p[1]), VScale(3, p[2])),
       VAdd(VScale(3, p[1]), VAdd(VScale(-6, p[2]), VScale(3, p[3]))),
       VAdd(VScale(-1, p[1]), VAdd(VScale(3, p[2]), VAdd(VScale(-3, p[3]), p[4]))) >>

\* CubicBezier::new(points).to_curve(): one segment per group of four points
ToCurve(points) == [i \in 1..Len(points) |-> BezierCoeffs(points[i])]

\* CubicSegment::position: a + (b + (c + d t) t) t at t = n / TDen
SegmentPosition(c, n) ==
    VAdd(VScale(FixDen, c[1]),
         VAdd(VScale(n * TDen * TDen, c[2]),
              VAdd(VScale(n * n * TDen, c[3]), VScale(n * n * n, c[4]))))

\* CubicCurve::position: pick the segment, then evaluate inside it
Position(curve, n) ==
    IF Len(curve) = 1
    THEN SegmentPosition(curve[1], n)
    ELSE LET raw == n \div TDen
             i == IF raw < 0 THEN 0
                  ELSE IF raw > Len(curve) - 1 THEN Len(curve) - 1 ELSE raw
         IN SegmentPosition(curve[i + 1], n - i * TDen)

\* CubicCurve::iter_positions(subdivisions): positions at i * step for
\* i in 0..=subdivisions, step = segments / subdivisions
\* variant: i in 0..subdivisions, the end excluded
IterPositions_Exclusive(curve, subdivisions) ==
    LET step == (Len(curve) * TDen) \div subdivisions
    IN [i \in 1..subdivisions |-> Position(curve, (i - 1) * step)]
IterPositions(curve, subdivisions) ==
    LET step == (Len(curve) * TDen) \div subdivisions
    IN [i \in 1..(subdivisions + 1) |-> Position(curve, (i - 1) * step)]

----------------------------------------------------------------------------
(* Time *)

\* the elapsed values (in pi/6) whose sine is rational
ExactSine(e) == (e % 6) \in {0, 1, 3, 5}

\* 2 * sin(e * pi/6) for those values
SinTimes2(e) ==
    LET k == e % 12
    IN CASE k \in {0, 6} -> 0
         [] k \in {1, 5} -> 1
         [] k = 3 -> 2
         [] k \in {7, 11} -> -1
         [] k = 9 -> -2

\* (time.elapsed_seconds().sin() + 1.) / 2., as a numerator over TDen
TParam(e) == ((SinTimes2(e) + 2) * TDen) \div 4

----------------------------------------------------------------------------
(* The scene *)

NoCurve == <<>>
NoTarget == <<>>

\* the control points of setup
ProgramPoints ==
    << << vec3(-6, 2, 0), vec3(12, 8, 0), vec3(-12, 8, 0), vec3(6, 2, 0) >> >>

Entity(bundle, mesh, translation, target, shadows, curve) ==
    [bundle |-> bundle, mesh |-> mesh, translation |-> translation,
     looking_at |-> target, shadows_enabled |-> shadows, curve |-> curve]

HasCurve(e) == e.curve # NoCurve

\* the entities setup spawns, in spawn order
\* variant: the point light is not spawned
SetupSpawns_NoLight ==
    LET points == ProgramPoints
        bezier == ToCurve(points)
    IN << Entity("PbrBundle", "Cuboid", ToFix(points[1][1]), NoTarget, FALSE, bezier),
          Entity("PbrBundle", "Plane3d", ToFix(vec3(0, 0, 0)), NoTarget, FALSE, NoCurve),
          Entity("Camera3dBundle", "none", ToFix(vec3(0, 6, 12)), ToFix(vec3(0, 3, 0)),
                 FALSE, NoCurve) >>
SetupSpawns ==
    LET points == ProgramPoints
        bezier == ToCurve(points)
    IN << Entity("PbrBundle", "Cuboid", ToFix(points[1][1]), NoTarget, FALSE, bezier),
          Entity("PointLightBundle", "none", ToFix(vec3(8, 16, 8)), NoTarget, TRUE, NoCurve),
          Entity("PbrBundle", "Plane3d", ToFix(vec3(0, 0, 0)), NoTarget, FALSE, NoCurve),
          Entity("Camera3dBundle", "none", ToFix(vec3(0, 6, 12)), ToFix(vec3(0, 3, 0)),
                 FALSE, NoCurve) >>

\* the body of animate_cube's loop for one queried entity: the new translation
\* variant: the position is added to the translation
AnimateTranslation_Relative(translation, curve, t) == VAdd(translation, Position(curve, t))
AnimateTranslation(translation, curve, t) == Position(curve, t)

\* animate_cube over the World: Query<(&mut Transform, &Curve)>
\* variant: the query is Query<&mut Transform>, without the Curve
AnimateWorld_AllTransforms(w, e) ==
    LET curve == ToCurve(ProgramPoints)
    IN [i \in 1..Len(w) |->
          [w[i] EXCEPT !.translation = AnimateTranslation(@, curve, TParam(e))]]
AnimateWorld(w, e) ==
    [i \in 1..Len(w) |->
        IF HasCurve(w[i])
        THEN [w[i] EXCEPT !.translation = AnimateTranslation(@, w[i].curve, TParam(e))]
        ELSE w[i]]

\* the linestrips animate_cube hands to Gizmos, one per queried entity
RECURSIVE DrawnStrips(_)
DrawnStrips(w) ==
    IF w = <<>> THEN <<>>
    ELSE (IF HasCurve(Head(w))
          THEN << IterPositions(Head(w).curve, Subdivisions) >>
          ELSE <<>>) \o DrawnStrips(Tail(w))

\* println!("Hi from Rust! String is '{string}' and number is {number}")
FormatHi(s, n) == << "Hi from Rust! String is '", s, "' and number is ", ToString(n) >>

----------------------------------------------------------------------------
(* Inputs *)

SayHiArgs == {<<"hello", 5>>, <<"", -1>>}
NoArgs == <<>>
NoProbe == <<>>

\* object states other than the default one
NumberStates == {0, I32Max - 1, I32Max}
StringStates == {"", "hello"}

\* control points over a small grid of integers, program's points included
Coords == (-CoordMax)..CoordMax
GridPoints == {vec3(x, y, z) : x \in Coords, y \in {0, 2}, z \in {0, 1}}
PointLists ==
    {<<p>> : p \in GridPoints \X GridPoints \X GridPoints \X GridPoints}
        \cup {ProgramPoints}
ProbeParams == {0, TDen \div 4, TDen \div 2, TDen}

----------------------------------------------------------------------------
(* Initial states *)

\* everything but the object's two fields
InitRest ==
    /\ overflow_checks \in BOOLEAN
    /\ crashed = FALSE
    /\ pc = "idle"
    /\ sayArgs = NoArgs
    /\ world = <<>>
    /\ elapsed = 0
    /\ frames = 0
    /\ gizmos = <<>>
    /\ stdout = <<>>
    /\ incCalls = 0
    /\ sayHiCalls = 0
    /\ setupRuns = 0
    /\ animateRuns = 0

\* #[derive(Default)] MyObjectRust
Init ==
    /\ number = 0
    /\ string = ""
    /\ probe = NoProbe
    /\ InitRest

\* the object in any of a few states, as the UI runtime may have left it
InitAnyState ==
    /\ number \in NumberStates
    /\ string \in StringStates
    /\ probe = NoProbe
    /\ InitRest

\* a curve over any list of four grid points, not yet evaluated
InitCurve ==
    /\ number = 0
    /\ string = ""
    /\ probe \in {[points |-> pl, t |-> -1, position |-> <<>>] : pl \in PointLists}
    /\ InitRest
    /\ overflow_checks = FALSE

----------------------------------------------------------------------------
(* The exposed operations *)

\* MyObject::increment_number
\* variant: the increment is applied twice
increment_number_Twice ==
    /\ pc = "idle" /\ ~crashed
    /\ incCalls < MaxInc
    /\ incCalls' = incCalls + 1
    /\ number' = AddI32(AddI32(number, 1), 1)
    /\ UNCHANGED <<string, overflow_checks, crashed, appVars, sayHiCalls, setupRuns,
                   animateRuns, probe>>
increment_number ==
    /\ pc = "idle" /\ ~crashed
    /\ incCalls < MaxInc
    /\ incCalls' = incCalls + 1
    /\ LET previous == number
       IN IF OverflowsI32(previous, 1) /\ overflow_checks
          THEN crashed' = TRUE /\ number' = number
          ELSE crashed' = crashed /\ number' = AddI32(previous, 1)
    /\ UNCHANGED <<string, overflow_checks, appVars, sayHiCalls, setupRuns,
                   animateRuns, probe>>

\* MyObject::say_hi up to the point where App::run() takes over the thread
say_hi(s, n) ==
    /\ pc = "idle" /\ ~crashed
    /\ sayHiCalls < MaxSayHi
    /\ sayHiCalls' = sayHiCalls + 1
    /\ sayArgs' = <<s, n>>
    /\ world' = <<>>
    /\ elapsed' = 0
    /\ frames' = 0
    /\ gizmos' = <<>>
    /\ pc' = "startup"
    /\ UNCHANGED <<objectVars, overflow_checks, crashed, stdout, incCalls, setupRuns,
                   animateRuns, probe>>

\* the Startup schedule of the running App: setup, its commands applied
setup ==
    /\ pc = "startup"
    /\ world' = world \o SetupSpawns
    /\ setupRuns' = setupRuns + 1
    /\ pc' = "update"
    /\ UNCHANGED <<objectVars, overflow_checks, crashed, sayArgs, elapsed, frames,
                   gizmos, stdout, incCalls, sayHiCalls, animateRuns, probe>>

\* one Update tick of the running App: the clock advances, animate_cube runs
animate_cube ==
    /\ pc = "update"
    /\ frames < MaxFrames
    /\ \E e \in elapsed..MaxElapsed :
          /\ ExactSine(e)
          /\ elapsed' = e
          /\ gizmos' = DrawnStrips(world)
          /\ world' = AnimateWorld(world, e)
    /\ frames' = frames + 1
    /\ animateRuns' = animateRuns + 1
    /\ UNCHANGED <<objectVars, overflow_checks, crashed, pc, sayArgs, stdout, incCalls,
                   sayHiCalls, setupRuns, probe>>

\* the App exits: run() returns, the App is dropped, say_hi prints and returns
\* variant: the number argument is stored in the object
say_hi_return_StoresNumber ==
    /\ pc = "update"
    /\ frames >= 1
    /\ stdout' = Append(stdout, FormatHi(sayArgs[1], sayArgs[2]))
    /\ number' = sayArgs[2]
    /\ world' = <<>>
    /\ gizmos' = <<>>
    /\ elapsed' = 0
    /\ frames' = 0
    /\ sayArgs' = NoArgs
    /\ pc' = "idle"
    /\ UNCHANGED <<string, overflow_checks, crashed, incCalls,
                   sayHiCalls, setupRuns, animateRuns, probe>>
say_hi_return ==
    /\ pc = "update"
    /\ frames >= 1
    /\ stdout' = Append(stdout, FormatHi(sayArgs[1], sayArgs[2]))
    /\ world' = <<>>
    /\ gizmos' = <<>>
    /\ elapsed' = 0
    /\ frames' = 0
    /\ sayArgs' = NoArgs
    /\ pc' = "idle"
    /\ UNCHANGED <<objectVars, overflow_checks, crashed, incCalls,
                   sayHiCalls, setupRuns, animateRuns, probe>>

\* CubicBezier::new(points).to_curve().position(t) on the probed points
EvalPosition ==
    /\ probe # NoProbe
    /\ probe.t = -1
    /\ \E t \in ProbeParams :
          probe' = [probe EXCEPT !.t = t,
                                 !.position = Position(ToCurve(probe.points), t)]
    /\ UNCHANGED <<objectVars, overflow_checks, crashed, appVars, incCalls, sayHiCalls,
                   setupRuns, animateRuns>>

Next ==
    \/ increment_number
    \/ \E a \in SayHiArgs : say_hi(a[1], a[2])
    \/ setup
    \/ animate_cube
    \/ say_hi_return

NextCurve == EvalPosition

Spec == Init /\ [][Next]_vars
SpecAnyState == InitAnyState /\ [][Next]_vars
SpecCurve == InitCurve /\ [][NextCurve]_vars

----------------------------------------------------------------------------
(* Claims *)

CurveEntities(w) == {i \in 1..Len(w) : HasCurve(w[i])}
ExactElapsed == {e \in 0..MaxElapsed : ExactSine(e)}

\* C1: a call of say_hi completes in the step that starts it: it emits its
\* line and returns without waiting for anything, the engine's frame loop
\* included.
C1_SayHiReturnsWithoutWaiting ==
    [][sayHiCalls' = sayHiCalls + 1 =>
          (pc' = "idle" /\ Len(stdout') = Len(stdout) + 1)]_vars

\* C2: from the default state, after n calls of increment_number, with any
\* number of say_hi calls in between, the counter is n.
C2_CounterCountsIncrements ==
    number = incCalls

C2_Witness ==
    incCalls = MaxInc /\ number = MaxInc /\ sayHiCalls >= 1 /\ Len(stdout) >= 1

\* C3: no step of a say_hi call, from the call to its return, changes the
\* counter or the text of the object, whatever the state and the arguments.
C3_SayHiLeavesObject ==
    [][(pc # "idle" \/ pc' # "idle") =>
          (number' = number /\ string' = string)]_vars

C3_Witness ==
    /\ pc = "idle" /\ Len(stdout) >= 1
    /\ stdout[1] = FormatHi("hello", 5)
    /\ number = I32Max /\ string = "hello"

\* C4: setup runs once in the life of the program and before every run of
\* animate_cube: a run of setup is the first one and no frame came before.
C4_SetupOnceBeforeFrames ==
    [][setupRuns' # setupRuns => (setupRuns = 0 /\ animateRuns = 0)]_vars

\* C5 (as amended): in every tick animate_cube draws one linestrip for the
\* curve entity and it has Subdivisions + 1 = 51 points, whatever the time.
C5_PolylineHas51Points ==
    (pc = "update" /\ frames >= 1) =>
        (Len(gizmos) = 1 /\ \A i \in 1..Len(gizmos) : Len(gizmos[i]) = Subdivisions + 1)

\* C5 (as claimed): the drawn linestrip has exactly 50 points.
C5_PolylineHas50Points ==
    (pc = "update" /\ frames >= 1) =>
        (Len(gizmos) = 1 /\ \A i \in 1..Len(gizmos) : Len(gizmos[i]) = Subdivisions)

C5_Witness ==
    /\ pc = "update" /\ frames = MaxFrames /\ elapsed = 5
    /\ Len(gizmos) = 1
    /\ gizmos[1][1] = ToFix(vec3(-6, 2, 0))
    /\ gizmos[1][Len(gizmos[1])] = ToFix(vec3(6, 2, 0))

\* C6: the curve built from four control points is at the first one at t = 0
\* and at the last one at t = 1; for the program's points that is (-6,2,0)
\* and (6,2,0).
C6_CurveEndpoints ==
    (probe # NoProbe /\ probe.t # -1) =>
        /\ probe.t = 0 => probe.position = ToFix(probe.points[1][1])
        /\ probe.t = TDen => probe.position = ToFix(probe.points[1][4])
        /\ (probe.points = ProgramPoints /\ probe.t = 0) =>
               probe.position = ToFix(vec3(-6, 2, 0))
        /\ (probe.points = ProgramPoints /\ probe.t = TDen) =>
               probe.position = ToFix(vec3(6, 2, 0))

C6_Witness ==
    /\ probe # NoProbe
    /\ probe.points = ProgramPoints
    /\ probe.t = TDen
    /\ probe.position = ToFix(vec3(6, 2, 0))

C8_AnimateIdempotent ==
    pc = "update" =>
        \A e \in ExactElapsed :
            LET once == AnimateWorld(world, e)
                twice == AnimateWorld(once, e)
            IN /\ twice = once
               /\ \A i \in CurveEntities(world) :
                     once[i].translation = Position(world[i].curve, TParam(e))

C8_Witness ==
    /\ pc = "update" /\ frames = 2 /\ elapsed = 3
    /\ \A i \in CurveEntities(world) : world[i].translation = ToFix(vec3(6, 2, 0))

\* C9: increment_number writes v + 1 below 2^31 - 1; at 2^31 - 1 the counter
\* either wraps to -2^31 or the call fails and leaves 2^31 - 1.
C9_IncrementOverflow ==
    [][incCalls' = incCalls + 1 =>
          IF number < I32Max
          THEN number' = number + 1 /\ ~crashed'
          ELSE \/ number' = I32Min /\ ~crashed'
               \/ number' = I32Max /\ crashed']_vars

C9_Witness ==
    incCalls >= 2 /\ number = I32Min /\ ~crashed

\* C10: a tick of animate_cube changes translations of curve entities and
\* nothing else: not a curve, not another entity, not the object's fields.
C10_TickMovesCurveEntitiesOnly ==
    [][animateRuns' = animateRuns + 1 =>
          /\ Len(world') = Len(world)
          /\ \A i \in 1..Len(world) :
                /\ world'[i] = [world[i] EXCEPT !.translation = world'[i].translation]
                /\ ~HasCurve(world[i]) => world'[i] = world[i]
          /\ number' = number
          /\ string' = string]_vars

C10_Witness ==
    /\ pc = "update" /\ frames >= 1 /\ number >= 1
    /\ world[1].translation = ToFix(vec3(6, 2, 0))
    /\ world[2].translation = ToFix(vec3(8, 16, 8))

====
